---- MODULE Spec2Model ----
(***************************************************************************)
(* Model of data/compile_anon_data.py: the export, semester by semester,   *)
(* of section metadata, Penn Course Alert watch lists and estimated        *)
(* registrations, with anonymized student numbers.                         *)
(*                                                                         *)
(* The database (tables Course, Section, Registration, Schedule,           *)
(* AddDropPeriod and the two restriction tables) is read-only input: the   *)
(* initial state draws it from bounded families, and the actions are the   *)
(* steps of the script's loop body followed by the three file writes.      *)
(* Times are whole days.                                                   *)
(***************************************************************************)
EXTENDS Integers, Sequences, FiniteSets, TLC

\* ------------------------------------------------------------------ bounds
MaxTime == 3
NumUsers == 2

\* SQL NULL / Python None, for ids and timestamps
NULL == -1

Times == 0..MaxTime
Users == 1..NumUsers

\* --------------------------------------------------------- program constants
SEMESTERS == <<"2020C", "2021A", "2021C", "2022A", "2022C", "2023A", "2023C">>

FIRST_BANNER_SEM == "2022A"

\* Section.ACTIVITY_CHOICES as a dict: activity code -> display string
ACTIVITY_CHOICES == [LEC |-> "Lecture", LAB |-> "Laboratory"]

\* Python compares semester strings lexicographically; the list above is in
\* lexicographic order, so the position in it decides the comparison.
SemesterIndex(s) == CHOOSE k \in 1..Len(SEMESTERS) : SEMESTERS[k] = s

SemesterGE(a, b) == SemesterIndex(a) >= SemesterIndex(b)

\* ------------------------------------------------------------ the database
\* Course rows, by id.  Course 2 is a cross-listing of course 1; course 4
\* has no primary listing.
Course ==
  [c \in 1..4 |->
     CASE c = 1 -> [semester |-> "2021C", full_code |-> "CIS-120",
                    primary_listing_id |-> 1]
       [] c = 2 -> [semester |-> "2021C", full_code |-> "NETS-120",
                    primary_listing_id |-> 1]
       [] c = 3 -> [semester |-> "2022A", full_code |-> "CIS-120",
                    primary_listing_id |-> 3]
       [] c = 4 -> [semester |-> "2022A", full_code |-> "OLD-001",
                    primary_listing_id |-> NULL]]

\* The key columns of the Section rows, by id.
SectionKey ==
  [s \in 1..5 |->
     CASE s = 1 -> [course_id |-> 1, code |-> "001"]
       [] s = 2 -> [course_id |-> 1, code |-> "002"]
       [] s = 3 -> [course_id |-> 2, code |-> "001"]
       [] s = 4 -> [course_id |-> 3, code |-> "001"]
       [] s = 5 -> [course_id |-> 4, code |-> "001"]]

SectionIds == DOMAIN SectionKey

VARIABLES
  Section,             \* section id -> [course_id, code, status, activity]
  Registration,        \* set of Penn Course Alert subscription rows
  Schedule,            \* set of Penn Course Plan schedule rows
  AddDropPeriod,       \* semester -> its row [estimated_end], where there is one
  NGSSRestriction,     \* section ids under a special-approval NGSS restriction
  PreNGSSRestriction,  \* the same for the pre-NGSS restrictions
  pc,                  \* position in the script
  i,                   \* index in SEMESTERS of the iteration
  semester, snapshot_date, primary_course_full_codes, permit_required_ids,
  section_info, valid_sections, watching, est_registration,
  student_ids, anon_num,
  all_section_info, all_watching, all_est_registration,
  files                \* file name -> pickled object

db == <<Section, Registration, Schedule, AddDropPeriod,
        NGSSRestriction, PreNGSSRestriction>>

locals == <<semester, snapshot_date, primary_course_full_codes,
            permit_required_ids, section_info, valid_sections, watching,
            est_registration, student_ids, anon_num>>

globals == <<all_section_info, all_watching, all_est_registration>>

vars == <<db, pc, i, locals, globals, files>>

\* ------------------------------------------------------------- helpers
EmptyDict == [x \in {} |-> x]

Max(S) == CHOOSE m \in S : \A x \in S : x <= m

\* all enumerations of a finite set, as sequences
Perms(S) ==
  {f \in [1..Cardinality(S) -> S] : \A a, b \in DOMAIN f : f[a] = f[b] => a = b}

\* full_code + f"-{code}", tabulated over the course and section codes of
\* the database
FullCodeTable ==
  [c \in {Course[x].full_code : x \in DOMAIN Course} |->
     [k \in {SectionKey[x].code : x \in DOMAIN SectionKey} |-> c \o "-" \o k]]

FullCode(course_full_code, code) == FullCodeTable[course_full_code][code]

\* Section.full_code, as the Django model stores it
SectionFullCode(s) ==
  FullCode(Course[Section[s].course_id].full_code, Section[s].code)

SectionSemester(s) == Course[Section[s].course_id].semester

\* section__course__primary_listing_id
SectionPrimaryListing(s) == Course[Section[s].course_id].primary_listing_id

\* -------------------------------------------------- lines 48-60: set-up
\* faulty variant: the snapshot is taken at the end of the add/drop period
SnapshotDateEnd(adp) == adp.estimated_end

SnapshotDate(adp) == adp.estimated_end - 1

PrimaryCourseFullCodes(sem) ==
  [c \in {c \in DOMAIN Course : /\ Course[c].semester = sem
                                /\ Course[c].primary_listing_id = c}
     |-> Course[c].full_code]

\* faulty variant: the NGSS restrictions are used for every semester
PermitRequiredIdsNGSS(sem) == NGSSRestriction

PermitRequiredIds(sem) ==
  IF SemesterGE(sem, FIRST_BANNER_SEM) THEN NGSSRestriction
  ELSE PreNGSSRestriction

\* ------------------------------------------ lines 62-86: section metadata
\* faulty variant: cross-listed sections are not excluded
SectionFilterCrossListed(s, sem) ==
  /\ Section[s].status # "X"
  /\ Section[s].activity # ""
  /\ SectionSemester(s) = sem

SectionFilter(s, sem) ==
  /\ Section[s].status # "X"
  /\ Section[s].activity # ""
  /\ SectionSemester(s) = sem
  /\ SectionPrimaryListing(s) = Section[s].course_id

SectionRecord(s, permit_ids) ==
  [activity |-> ACTIVITY_CHOICES[Section[s].activity],
   open |-> (Section[s].status = "O"),
   permit_required |-> (s \in permit_ids)]

SectionInfo(sem, permit_ids) ==
  LET rows == {s \in DOMAIN Section : SectionFilter(s, sem)}
  IN  [fc \in {SectionFullCode(s) : s \in rows} |->
         SectionRecord(CHOOSE s \in rows : SectionFullCode(s) = fc, permit_ids)]

\* --------------------------------------------- lines 88-105: watch lists
ActiveFilter(r, sem, snapshot) ==
  /\ (r.notification_sent_at = NULL \/ r.notification_sent_at > snapshot)
  /\ (r.cancelled_at = NULL \/ r.cancelled_at > snapshot)
  /\ (r.deleted_at = NULL \/ r.deleted_at > snapshot)
  /\ r.created_at <= snapshot
  /\ SectionSemester(r.section_id) = sem

\* faulty variant: the rows are ordered by created_at
OrderKeyCreated(r) == r.created_at

OrderKey(r) == r.original_created_at

\* The rows of the query in an order the database may return them in:
\* ascending in the order_by column, rows that tie in any order.
ActiveSubscriptions(sem, snapshot) ==
  LET rows == {r \in Registration : ActiveFilter(r, sem, snapshot)}
  IN  {q \in Perms(rows) :
         \A a, b \in DOMAIN q : a < b => OrderKey(q[a]) <= OrderKey(q[b])}

\* index of the first row whose primary listing is no key of the map
\* (the KeyError of line 102), 0 if there is none
WatchingKeyError(q, pcfc) ==
  LET bad == {k \in DOMAIN q :
                SectionPrimaryListing(q[k].section_id) \notin DOMAIN pcfc}
  IN  IF bad = {} THEN 0 ELSE CHOOSE k \in bad : \A m \in bad : k <= m

\* faulty variant: line 103 is missing
WatchingKeepAll(full_code, valid) == TRUE

WatchingKeep(full_code, valid) == full_code \in valid

\* the loop of lines 101-105 over the first n rows of q
RECURSIVE WatchingLoop(_, _, _, _)
WatchingLoop(q, n, pcfc, valid) ==
  IF n = 0 THEN EmptyDict
  ELSE LET w == WatchingLoop(q, n - 1, pcfc, valid)
           r == q[n]
           full_code == FullCode(pcfc[SectionPrimaryListing(r.section_id)],
                                 Section[r.section_id].code)
           old == IF r.user_id \in DOMAIN w THEN w[r.user_id] ELSE <<>>
       IN  IF ~WatchingKeep(full_code, valid) THEN w
           ELSE [u \in DOMAIN w \cup {r.user_id} |->
                   IF u = r.user_id THEN Append(old, full_code) ELSE w[u]]

\* ------------------------------- lines 107-132: estimated registrations
\* faulty variant: every schedule of the semester is taken
LatestFilterAny(sch, sem) == sch.semester = sem

LatestFilter(sch, sem) ==
  /\ sch.semester = sem
  /\ sch.updated_at =
       Max({o.updated_at : o \in {o \in Schedule : /\ o.person_id = sch.person_id
                                                    /\ o.semester = sem}})

\* the query has no order_by: its rows in any order
LatestSchedules(sem) == Perms({sch \in Schedule : LatestFilter(sch, sem)})

ScheduleKeyError(q, pcfc) ==
  LET bad == {k \in DOMAIN q :
                \E s \in q[k].sections : SectionPrimaryListing(s) \notin DOMAIN pcfc}
  IN  IF bad = {} THEN 0 ELSE CHOOSE k \in bad : \A m \in bad : k <= m

Range(f) == {f[x] : x \in DOMAIN f}

\* faulty variant: the watched sections are not subtracted
EstimateKeepWatched(sections, valid, watched) == sections \cap valid

Estimate(sections, valid, watched) == (sections \cap valid) \ watched

\* faulty variant: a plain lookup with a default, which inserts nothing
DefaultGetNoInsert(w, u) == w

\* watching[user_id] on a defaultdict(list): the dict after the lookup, in
\* which a missing key has been inserted with an empty list
DefaultGet(w, u) == IF u \in DOMAIN w THEN w ELSE w @@ (u :> <<>>)

\* set(watching[user_id])
Watched(w, u) == IF u \in DOMAIN w THEN Range(w[u]) ELSE {}

\* the loop of lines 125-132 over the first n rows of q, from watch lists w:
\* the pair of est_registration and watching after it
RECURSIVE EstLoop(_, _, _, _, _)
EstLoop(q, n, pcfc, valid, w) ==
  IF n = 0 THEN [est |-> EmptyDict, watching |-> w]
  ELSE LET prev == EstLoop(q, n - 1, pcfc, valid, w)
           schedule == q[n]
           user_id == schedule.person_id
           sections == {FullCode(pcfc[SectionPrimaryListing(s)], Section[s].code) :
                          s \in schedule.sections}
           value == Estimate(sections, valid, Watched(prev.watching, user_id))
       IN  [est |-> [u \in DOMAIN prev.est \cup {user_id} |->
                       IF u = user_id THEN value ELSE prev.est[u]],
            watching |-> DefaultGet(prev.watching, user_id)]

\* ------------------------------------------- lines 134-139: anonymization
\* faulty variant: the index is halved, so neighbours share a number
AnonNumCollide(ids) ==
  [old_id \in Range(ids) |-> ((CHOOSE k \in DOMAIN ids : ids[k] = old_id) - 1) \div 2]

AnonNum(ids) == [old_id \in Range(ids) |-> (CHOOSE k \in DOMAIN ids : ids[k] = old_id) - 1]

Remap(d, anon) ==
  [k \in {anon[u] : u \in DOMAIN d} |-> d[CHOOSE u \in DOMAIN d : anon[u] = k]]

\* ---------------------------------------------------------------- Init
\* The database the runs start from is the base database below with one of
\* its tables varied over a bounded family.
SectionRow(s, status, activity) ==
  [course_id |-> SectionKey[s].course_id, code |-> SectionKey[s].code,
   status |-> status, activity |-> activity]

BaseSection ==
  [s \in SectionIds |->
     SectionRow(s, IF s = 2 THEN "C" ELSE "O", IF s = 4 THEN "LAB" ELSE "LEC")]

RegistrationRow(u, s, c, o, n, x, d) ==
  [user_id |-> u, section_id |-> s, created_at |-> c, original_created_at |-> o,
   notification_sent_at |-> n, cancelled_at |-> x, deleted_at |-> d]

BaseRegistration ==
  {RegistrationRow(1, 3, 1, 1, NULL, NULL, NULL),
   RegistrationRow(2, 2, 2, 0, NULL, NULL, NULL),
   RegistrationRow(2, 3, 1, 1, NULL, NULL, NULL),
   RegistrationRow(1, 4, 0, 0, NULL, 1, NULL)}

ScheduleRow(u, sem, t, sections) ==
  [person_id |-> u, semester |-> sem, updated_at |-> t, sections |-> sections]

BaseSchedule ==
  {ScheduleRow(1, "2021C", 1, {1, 2}), ScheduleRow(2, "2022A", 0, {4})}

BaseAddDropPeriod == [s \in Range(SEMESTERS) |-> [estimated_end |-> MaxTime]]

BaseNGSSRestriction == {1}

BasePreNGSSRestriction == {4}

\* every status and activity of the sections of the primary and cross-listed
\* courses
SectionTables ==
  {[s \in SectionIds |->
      IF s \in DOMAIN st THEN SectionRow(s, st[s], ac[s]) ELSE BaseSection[s]] :
     st \in [1..4 -> {"O", "C", "X"}], ac \in [1..4 -> {"", "LEC"}]}

\* a subscription is resubscribed from one created no later, and is notified,
\* cancelled or deleted no earlier than it is created
RegistrationRows ==
  UNION {{RegistrationRow(u, s, c, o, n, x, d) :
            u \in Users, s \in SectionIds, o \in 0..c,
            n \in {NULL} \cup c..MaxTime, x \in {NULL} \cup c..MaxTime,
            d \in {NULL} \cup c..MaxTime} : c \in Times}

RegistrationTables == {BaseRegistration \cup {r} : r \in RegistrationRows}

\* schedules of a semester without courses and of the two with courses
ScheduleRows ==
  {ScheduleRow(u, sem, t, sections) :
     u \in Users, sem \in {"2021A", "2021C", "2022A"}, t \in Times,
     sections \in SUBSET SectionIds}

ScheduleTables == {BaseSchedule \cup {sch} : sch \in ScheduleRows}

\* at most one semester without a row
AddDropPeriodTables ==
  {[s \in Range(SEMESTERS) \ missing |-> [estimated_end |-> e]] :
     missing \in {{}} \cup {{s} : s \in Range(SEMESTERS)}, e \in 1..MaxTime}

InitDB ==
  \/ /\ Section \in SectionTables
     /\ Registration = BaseRegistration
     /\ Schedule = BaseSchedule
     /\ AddDropPeriod = BaseAddDropPeriod
     /\ NGSSRestriction = BaseNGSSRestriction
     /\ PreNGSSRestriction = BasePreNGSSRestriction
  \/ /\ Section = BaseSection
     /\ Registration \in RegistrationTables
     /\ Schedule = BaseSchedule
     /\ AddDropPeriod = BaseAddDropPeriod
     /\ NGSSRestriction = BaseNGSSRestriction
     /\ PreNGSSRestriction = BasePreNGSSRestriction
  \/ /\ Section = BaseSection
     /\ Registration = BaseRegistration
     /\ Schedule \in ScheduleTables
     /\ AddDropPeriod = BaseAddDropPeriod
     /\ NGSSRestriction = BaseNGSSRestriction
     /\ PreNGSSRestriction = BasePreNGSSRestriction
  \/ /\ Section = BaseSection
     /\ Registration = BaseRegistration
     /\ Schedule = BaseSchedule
     /\ AddDropPeriod \in AddDropPeriodTables
     /\ NGSSRestriction = BaseNGSSRestriction
     /\ PreNGSSRestriction = BasePreNGSSRestriction
  \/ /\ Section = BaseSection
     /\ Registration = BaseRegistration
     /\ Schedule = BaseSchedule
     /\ AddDropPeriod = BaseAddDropPeriod
     /\ NGSSRestriction \in SUBSET (1..4)
     /\ PreNGSSRestriction \in SUBSET (1..4)

Init ==
  /\ InitDB
  /\ pc = "for"
  /\ i = 1
  /\ semester = "" /\ snapshot_date = NULL
  /\ primary_course_full_codes = EmptyDict
  /\ permit_required_ids = {}
  /\ section_info = EmptyDict /\ valid_sections = {}
  /\ watching = EmptyDict /\ est_registration = EmptyDict
  /\ student_ids = <<>> /\ anon_num = EmptyDict
  /\ all_section_info = EmptyDict
  /\ all_watching = EmptyDict
  /\ all_est_registration = EmptyDict
  /\ files = EmptyDict

\* -------------------------------------------------------------- actions
\* lines 47-86: the add/drop period is there
BuildSectionInfo ==
  /\ pc = "for"
  /\ SEMESTERS[i] \in DOMAIN AddDropPeriod
  /\ semester' = SEMESTERS[i]
  /\ snapshot_date' = SnapshotDate(AddDropPeriod[SEMESTERS[i]])
  /\ primary_course_full_codes' = PrimaryCourseFullCodes(SEMESTERS[i])
  /\ permit_required_ids' = PermitRequiredIds(SEMESTERS[i])
  /\ section_info' = SectionInfo(SEMESTERS[i], PermitRequiredIds(SEMESTERS[i]))
  /\ valid_sections' = DOMAIN SectionInfo(SEMESTERS[i], PermitRequiredIds(SEMESTERS[i]))
  /\ pc' = "watching"
  /\ UNCHANGED <<db, i, watching, est_registration, student_ids, anon_num,
                 globals, files>>

\* line 48: AddDropPeriod.DoesNotExist
AddDropPeriodDoesNotExist ==
  /\ pc = "for"
  /\ SEMESTERS[i] \notin DOMAIN AddDropPeriod
  /\ semester' = SEMESTERS[i]
  /\ pc' = "aborted"
  /\ UNCHANGED <<db, i, snapshot_date, primary_course_full_codes,
                 permit_required_ids, section_info, valid_sections, watching,
                 est_registration, student_ids, anon_num, globals, files>>

\* lines 88-105
BuildWatching ==
  /\ pc = "watching"
  /\ \E q \in ActiveSubscriptions(semester, snapshot_date) :
       /\ WatchingKeyError(q, primary_course_full_codes) = 0
       /\ watching' = WatchingLoop(q, Len(q), primary_course_full_codes,
                                   valid_sections)
  /\ pc' = "schedules"
  /\ UNCHANGED <<db, i, semester, snapshot_date, primary_course_full_codes,
                 permit_required_ids, section_info, valid_sections,
                 est_registration, student_ids, anon_num, globals, files>>

\* line 102: KeyError
BuildWatchingKeyError ==
  /\ pc = "watching"
  /\ \E q \in ActiveSubscriptions(semester, snapshot_date) :
       /\ WatchingKeyError(q, primary_course_full_codes) # 0
       /\ watching' = WatchingLoop(q, WatchingKeyError(q, primary_course_full_codes) - 1,
                                   primary_course_full_codes, valid_sections)
  /\ pc' = "aborted"
  /\ UNCHANGED <<db, i, semester, snapshot_date, primary_course_full_codes,
                 permit_required_ids, section_info, valid_sections,
                 est_registration, student_ids, anon_num, globals, files>>

\* lines 107-132
BuildEstRegistration ==
  /\ pc = "schedules"
  /\ \E q \in LatestSchedules(semester) :
       /\ ScheduleKeyError(q, primary_course_full_codes) = 0
       /\ LET r == EstLoop(q, Len(q), primary_course_full_codes, valid_sections,
                           watching)
          IN  /\ est_registration' = r.est
              /\ watching' = r.watching
  /\ pc' = "anonymize"
  /\ UNCHANGED <<db, i, semester, snapshot_date, primary_course_full_codes,
                 permit_required_ids, section_info, valid_sections,
                 student_ids, anon_num, globals, files>>

\* line 128: KeyError
BuildEstRegistrationKeyError ==
  /\ pc = "schedules"
  /\ \E q \in LatestSchedules(semester) :
       /\ ScheduleKeyError(q, primary_course_full_codes) # 0
       /\ LET r == EstLoop(q, ScheduleKeyError(q, primary_course_full_codes) - 1,
                           primary_course_full_codes, valid_sections, watching)
          IN  /\ est_registration' = r.est
              /\ watching' = r.watching
  /\ pc' = "aborted"
  /\ UNCHANGED <<db, i, semester, snapshot_date, primary_course_full_codes,
                 permit_required_ids, section_info, valid_sections,
                 student_ids, anon_num, globals, files>>

\* faulty variant: the writes follow the first iteration
LoopDoneEarly(n) == n > 1

LoopDone(n) == n > Len(SEMESTERS)

\* lines 134-143, and the loop's step to the next semester or out of it
Anonymize ==
  /\ pc = "anonymize"
  /\ \E ids \in Perms(DOMAIN watching \cup DOMAIN est_registration) :
       /\ student_ids' = ids
       /\ anon_num' = AnonNum(ids)
       /\ watching' = Remap(watching, AnonNum(ids))
       /\ est_registration' = Remap(est_registration, AnonNum(ids))
       /\ all_section_info' = all_section_info @@ (semester :> section_info)
       /\ all_watching' = all_watching @@ (semester :> Remap(watching, AnonNum(ids)))
       /\ all_est_registration' =
            all_est_registration @@ (semester :> Remap(est_registration, AnonNum(ids)))
  /\ i' = i + 1
  /\ pc' = IF LoopDone(i + 1) THEN "write_watching" ELSE "for"
  /\ UNCHANGED <<db, semester, snapshot_date, primary_course_full_codes,
                 permit_required_ids, section_info, valid_sections, files>>

\* lines 147-148
WriteWatching ==
  /\ pc = "write_watching"
  /\ files' = files @@ ("watching.pkl" :> all_watching)
  /\ pc' = "write_section_info"
  /\ UNCHANGED <<db, i, locals, globals>>

\* lines 157-158
WriteSectionInfo ==
  /\ pc = "write_section_info"
  /\ files' = files @@ ("section_info.pkl" :> all_section_info)
  /\ pc' = "write_est_registration"
  /\ UNCHANGED <<db, i, locals, globals>>

\* lines 162-163
WriteEstRegistration ==
  /\ pc = "write_est_registration"
  /\ files' = files @@ ("estimated-registration.pkl" :> all_est_registration)
  /\ pc' = "done"
  /\ UNCHANGED <<db, i, locals, globals>>

Next ==
  \/ BuildSectionInfo
  \/ AddDropPeriodDoesNotExist
  \/ BuildWatching
  \/ BuildWatchingKeyError
  \/ BuildEstRegistration
  \/ BuildEstRegistrationKeyError
  \/ Anonymize
  \/ WriteWatching
  \/ WriteSectionInfo
  \/ WriteEstRegistration

Spec == Init /\ [][Next]_vars

\* ================================================================ claims
\* The iteration for `semester` has just run to its end: the locals are those
\* of that semester and its three entries are stored.
Processed ==
  /\ pc \in {"for", "write_watching"}
  /\ semester \in DOMAIN all_watching

\* The three files are written.
Exported == pc = "done"

ExportedWatching == files["watching.pkl"]

ExportedSectionInfo == files["section_info.pkl"]

ExportedEstRegistration == files["estimated-registration.pkl"]

\* the snapshot time of a semester, from its add/drop-period row
SnapshotOf(sem) == AddDropPeriod[sem].estimated_end - 1

\* the full code of a section under its course's primary listing
PrimaryFullCode(s) ==
  LET p == Course[Section[s].course_id].primary_listing_id
  IN  IF p \in DOMAIN Course
      THEN FullCode(Course[p].full_code, Section[s].code)
      ELSE "?"

\* a subscription of the semester that is active at the semester's snapshot
ActiveAt(r, sem) ==
  /\ Course[Section[r.section_id].course_id].semester = sem
  /\ r.created_at <= SnapshotOf(sem)
  /\ ~(r.notification_sent_at # NULL /\ r.notification_sent_at <= SnapshotOf(sem))
  /\ ~(r.cancelled_at # NULL /\ r.cancelled_at <= SnapshotOf(sem))
  /\ ~(r.deleted_at # NULL /\ r.deleted_at <= SnapshotOf(sem))

\* ... and whose resolved full code is a key of the semester's metadata
Contributes(r, sem) ==
  /\ ActiveAt(r, sem)
  /\ PrimaryFullCode(r.section_id) \in DOMAIN all_section_info[sem]

\* the exported watch list and estimated registration of a real student in
\* the semester just processed
WatchListOf(u) ==
  IF u \in DOMAIN anon_num /\ anon_num[u] \in DOMAIN all_watching[semester]
  THEN all_watching[semester][anon_num[u]]
  ELSE <<>>

HasEstimate(u) ==
  u \in DOMAIN anon_num /\ anon_num[u] \in DOMAIN all_est_registration[semester]

Count(q, x) == Cardinality({k \in DOMAIN q : q[k] = x})

\* x occurs in q at a position before one where y occurs
Before(q, x, y) == \E a, b \in DOMAIN q : a < b /\ q[a] = x /\ q[b] = y

SchedulesOf(u, sem) == {sch \in Schedule : sch.person_id = u /\ sch.semester = sem}

AllFullCodes == UNION {Range(FullCodeTable[c]) : c \in DOMAIN FullCodeTable}

\* C1: in the exported data, in every semester, the estimated registration
\* and the watch list under the same student number share no section code.
C1_Disjoint ==
  Exported =>
    \A sem \in DOMAIN ExportedEstRegistration :
      \A k \in DOMAIN ExportedEstRegistration[sem] \cap DOMAIN ExportedWatching[sem] :
        ExportedEstRegistration[sem][k] \cap Range(ExportedWatching[sem][k]) = {}

\* exported: a student with a watch list and an estimate, a schedule of the
\* semester holding a section of each
C1_Witness ==
  /\ Exported
  /\ \E sem \in DOMAIN ExportedEstRegistration :
       \E k \in DOMAIN ExportedEstRegistration[sem] \cap DOMAIN ExportedWatching[sem] :
         \E sch \in Schedule :
           /\ sch.semester = sem
           /\ \E s \in sch.sections :
                PrimaryFullCode(s) \in Range(ExportedWatching[sem][k])
           /\ \E s \in sch.sections :
                PrimaryFullCode(s) \in ExportedEstRegistration[sem][k]

\* C2: every exported watched section and every exported estimated section is
\* a key of the same semester's section metadata; a reference that resolves
\* to no valid section is dropped.
C2_ValidOnly ==
  /\ Exported =>
       /\ \A sem \in DOMAIN ExportedWatching :
            \A k \in DOMAIN ExportedWatching[sem] :
              Range(ExportedWatching[sem][k]) \subseteq DOMAIN ExportedSectionInfo[sem]
       /\ \A sem \in DOMAIN ExportedEstRegistration :
            \A k \in DOMAIN ExportedEstRegistration[sem] :
              ExportedEstRegistration[sem][k] \subseteq DOMAIN ExportedSectionInfo[sem]
  /\ Processed =>
       \A r \in Registration :
         (ActiveAt(r, semester) /\ ~Contributes(r, semester)) =>
           PrimaryFullCode(r.section_id) \notin Range(WatchListOf(r.user_id))

\* an active subscription and a scheduled section whose resolved section is
\* cancelled, in a semester that was exported
C2_Witness ==
  /\ Processed
  /\ \E r \in Registration :
       /\ ActiveAt(r, semester)
       /\ ~Contributes(r, semester)
       /\ \E s \in SectionIds :
            /\ SectionFullCode(s) = PrimaryFullCode(r.section_id)
            /\ SectionSemester(s) = semester
            /\ Section[s].status = "X"
       /\ \E sch \in SchedulesOf(r.user_id, semester) :
            \E s \in sch.sections : PrimaryFullCode(s) = PrimaryFullCode(r.section_id)

\* C3: the anonymization step maps the keys of the watching and estimated
\* registration mappings one-to-one onto 0..N-1, whatever the shuffle, and
\* the remapped mappings keep every entry under its student's number.
C3_Bijection ==
  [][pc = "anonymize" =>
       LET ids == DOMAIN watching \cup DOMAIN est_registration
           N == Cardinality(ids)
       IN  /\ DOMAIN anon_num' = ids
           /\ \A a, b \in ids : anon_num'[a] = anon_num'[b] => a = b
           /\ {anon_num'[u] : u \in ids} = 0..(N - 1)
           /\ DOMAIN all_watching'[semester] = {anon_num'[u] : u \in DOMAIN watching}
           /\ \A u \in DOMAIN watching :
                all_watching'[semester][anon_num'[u]] = watching[u]
           /\ DOMAIN all_est_registration'[semester] =
                {anon_num'[u] : u \in DOMAIN est_registration}
           /\ \A u \in DOMAIN est_registration :
                all_est_registration'[semester][anon_num'[u]] = est_registration[u]
           /\ DOMAIN all_watching'[semester] \cup DOMAIN all_est_registration'[semester]
                \subseteq 0..(N - 1)]_vars

\* two students, one of them without an estimate, numbered against the order
\* of their ids
C3_Witness ==
  /\ Processed
  /\ Len(student_ids) = 2
  /\ student_ids[1] > student_ids[2]
  /\ \E u \in DOMAIN anon_num : ~HasEstimate(u)
  /\ \E u \in DOMAIN anon_num : HasEstimate(u) /\ WatchListOf(u) # <<>>

\* C4, as stated: of two contributing subscriptions of a student, the one
\* created earlier has its section earlier in the exported watch list.
C4_CreatedOrder ==
  Processed =>
    \A r1, r2 \in Registration :
      (/\ r1.user_id = r2.user_id
       /\ Contributes(r1, semester) /\ Contributes(r2, semester)
       /\ r1.created_at < r2.created_at)
      => Before(WatchListOf(r1.user_id), PrimaryFullCode(r1.section_id),
                PrimaryFullCode(r2.section_id))

\* C4, amended: of two contributing subscriptions of a student, the one whose
\* original_created_at is earlier has its section earlier in the exported
\* watch list.
C4_OriginalCreatedOrder ==
  Processed =>
    \A r1, r2 \in Registration :
      (/\ r1.user_id = r2.user_id
       /\ Contributes(r1, semester) /\ Contributes(r2, semester)
       /\ r1.original_created_at < r2.original_created_at)
      => Before(WatchListOf(r1.user_id), PrimaryFullCode(r1.section_id),
                PrimaryFullCode(r2.section_id))

\* a student with two contributing subscriptions to different sections, the
\* later created one being the earlier by original_created_at
C4_Witness ==
  /\ Processed
  /\ \E r1, r2 \in Registration :
       /\ r1.user_id = r2.user_id
       /\ Contributes(r1, semester) /\ Contributes(r2, semester)
       /\ r1.original_created_at < r2.original_created_at
       /\ r2.created_at < r1.created_at
       /\ WatchListOf(r1.user_id) =
            <<PrimaryFullCode(r1.section_id), PrimaryFullCode(r2.section_id)>>
       /\ PrimaryFullCode(r1.section_id) # PrimaryFullCode(r2.section_id)

\* C5: a student with a schedule in the semester has as estimated
\* registration the sections of one of their schedules of that semester with
\* the greatest updated_at, resolved, restricted to the valid sections, less
\* the sections they watch.
C5_LatestSchedule ==
  Processed =>
    \A u \in Users :
      SchedulesOf(u, semester) # {} =>
        /\ HasEstimate(u)
        /\ \E sch \in SchedulesOf(u, semester) :
             /\ \A o \in SchedulesOf(u, semester) : o.updated_at <= sch.updated_at
             /\ all_est_registration[semester][anon_num[u]] =
                  ({PrimaryFullCode(s) : s \in sch.sections}
                     \cap DOMAIN all_section_info[semester])
                  \ Range(WatchListOf(u))

\* a student with an older schedule holding a valid, unwatched section that
\* the latest one lacks: the section is not in the estimate
C5_Witness ==
  /\ Processed
  /\ \E u \in Users :
       \E old, new \in SchedulesOf(u, semester) :
         /\ old.updated_at < new.updated_at
         /\ \E s \in old.sections \ new.sections :
              /\ PrimaryFullCode(s) \in DOMAIN all_section_info[semester]
              /\ PrimaryFullCode(s) \notin Range(WatchListOf(u))
              /\ PrimaryFullCode(s) \notin {PrimaryFullCode(t) : t \in new.sections}
         /\ \A o \in SchedulesOf(u, semester) : o.updated_at <= new.updated_at
         /\ new.sections # {}
         /\ HasEstimate(u)
         /\ \E s \in old.sections :
              PrimaryFullCode(s) \notin all_est_registration[semester][anon_num[u]]

\* C6: the keys of a semester's section metadata are the full codes of the
\* sections of that semester that are not cancelled, have an activity and
\* whose course is its own primary listing; no other section of the semester
\* has its full code among the keys.
C6_SectionKeys ==
  Exported =>
    \A sem \in DOMAIN ExportedSectionInfo :
      LET ok(s) == /\ Course[Section[s].course_id].semester = sem
                   /\ Section[s].status # "X"
                   /\ Section[s].activity # ""
                   /\ Course[Section[s].course_id].primary_listing_id
                        = Section[s].course_id
      IN  /\ DOMAIN ExportedSectionInfo[sem] =
               {SectionFullCode(s) : s \in {t \in SectionIds : ok(t)}}
          /\ \A s \in SectionIds :
               Course[Section[s].course_id].semester = sem =>
                 (SectionFullCode(s) \in DOMAIN ExportedSectionInfo[sem] <=> ok(s))

\* exported: a semester with a kept section, a cancelled one, and an open
\* cross-listed one with an activity
C6_Witness ==
  /\ Exported
  /\ DOMAIN ExportedSectionInfo["2021C"] # {}
  /\ \E s \in SectionIds :
       /\ SectionSemester(s) = "2021C"
       /\ Section[s].status = "X"
       /\ SectionPrimaryListing(s) = Section[s].course_id
  /\ \E s \in SectionIds :
       /\ SectionSemester(s) = "2021C"
       /\ Section[s].status = "O" /\ Section[s].activity # ""
       /\ SectionPrimaryListing(s) \notin {NULL, Section[s].course_id}

\* C7: a file is written only once every semester of the list is processed;
\* the semesters processed are a prefix of the list; an aborted run has
\* written no file and takes no further step.
C7_NoPartialOutput ==
  /\ DOMAIN all_section_info = {SEMESTERS[k] : k \in 1..(i - 1)}
  /\ DOMAIN all_watching = {SEMESTERS[k] : k \in 1..(i - 1)}
  /\ DOMAIN all_est_registration = {SEMESTERS[k] : k \in 1..(i - 1)}
  /\ DOMAIN files # {} => i = Len(SEMESTERS) + 1
  /\ pc = "aborted" => (DOMAIN files = {} /\ ~ENABLED Next)

\* a run aborted for a missing add/drop period after a semester with data
\* was processed
C7_Witness ==
  /\ pc = "aborted"
  /\ semester \notin DOMAIN AddDropPeriod
  /\ "2021C" \in DOMAIN all_watching
  /\ all_watching["2021C"] # EmptyDict
  /\ DOMAIN files = {}

\* C8: each student's exported watch list holds a section code once for each
\* of their subscriptions of the semester that was created at or before the
\* snapshot, not notified, cancelled or deleted at or before it, and that
\* resolves to a valid section, and holds nothing else.
C8_ActiveAtSnapshot ==
  Processed =>
    /\ \A u \in Users : \A fc \in AllFullCodes :
         Count(WatchListOf(u), fc) =
           Cardinality({r \in Registration :
                          /\ r.user_id = u
                          /\ Contributes(r, semester)
                          /\ PrimaryFullCode(r.section_id) = fc})
    /\ \A k \in DOMAIN all_watching[semester] :
         /\ \E u \in DOMAIN anon_num : anon_num[u] = k
         /\ Range(all_watching[semester][k]) \subseteq AllFullCodes

\* a subscription created at the snapshot time is exported and one cancelled
\* at the snapshot time is not
C8_Witness ==
  /\ Processed
  /\ \E r \in Registration :
       /\ r.created_at = SnapshotOf(semester)
       /\ Contributes(r, semester)
       /\ PrimaryFullCode(r.section_id) \in Range(WatchListOf(r.user_id))
  /\ \E r \in Registration :
       /\ SectionSemester(r.section_id) = semester
       /\ r.cancelled_at = SnapshotOf(semester)
       /\ r.notification_sent_at = NULL /\ r.deleted_at = NULL
       /\ PrimaryFullCode(r.section_id) \in DOMAIN all_section_info[semester]
       /\ PrimaryFullCode(r.section_id) \notin Range(WatchListOf(r.user_id))

\* C9: permit_required of a section in the metadata of a semester is true
\* exactly when the section is in the NGSS restrictions, for a semester from
\* the cutover on, and in the pre-NGSS restrictions, for an earlier one.
C9_PermitRegime ==
  Exported =>
    \A sem \in DOMAIN ExportedSectionInfo :
      \A s \in SectionIds :
        (/\ Course[Section[s].course_id].semester = sem
         /\ SectionFullCode(s) \in DOMAIN ExportedSectionInfo[sem])
        => (ExportedSectionInfo[sem][SectionFullCode(s)].permit_required
              <=> IF sem \in {"2022A", "2022C", "2023A", "2023C"}
                  THEN s \in NGSSRestriction
                  ELSE s \in PreNGSSRestriction)

\* exported: sections under the NGSS restrictions only, one in the cutover
\* semester with the flag and one in the semester before it without
C9_Witness ==
  /\ Exported
  /\ \E s \in NGSSRestriction \ PreNGSSRestriction :
       /\ SectionSemester(s) = "2022A"
       /\ SectionFullCode(s) \in DOMAIN ExportedSectionInfo["2022A"]
       /\ ExportedSectionInfo["2022A"][SectionFullCode(s)].permit_required
  /\ \E s \in NGSSRestriction \ PreNGSSRestriction :
       /\ SectionSemester(s) = "2021C"
       /\ SectionFullCode(s) \in DOMAIN ExportedSectionInfo["2021C"]
       /\ ~ExportedSectionInfo["2021C"][SectionFullCode(s)].permit_required

\* C10: every key of a semester's estimated registrations is a key of its
\* watch lists; a student with a schedule and no contributing subscription
\* has an empty watch list, and one with a contributing subscription and no
\* schedule has a watch list and no estimate.
C10_EstimateKeysWatched ==
  /\ Exported =>
       \A sem \in DOMAIN ExportedEstRegistration :
         DOMAIN ExportedEstRegistration[sem] \subseteq DOMAIN ExportedWatching[sem]
  /\ Processed =>
       \A u \in Users :
         LET subs == {r \in Registration : r.user_id = u /\ Contributes(r, semester)}
         IN  /\ (SchedulesOf(u, semester) # {} /\ subs = {}) =>
                  /\ HasEstimate(u)
                  /\ anon_num[u] \in DOMAIN all_watching[semester]
                  /\ all_watching[semester][anon_num[u]] = <<>>
             /\ (SchedulesOf(u, semester) = {} /\ subs # {}) =>
                  /\ u \in DOMAIN anon_num
                  /\ anon_num[u] \in DOMAIN all_watching[semester]
                  /\ ~HasEstimate(u)

\* a semester with a student of each kind
C10_Witness ==
  /\ Processed
  /\ \E u \in DOMAIN anon_num : HasEstimate(u) /\ WatchListOf(u) = <<>>
  /\ \E u \in DOMAIN anon_num : ~HasEstimate(u) /\ WatchListOf(u) # <<>>

====
